---- MODULE Spec2Model ----
(***************************************************************************)
(* A model of pdftomarkdown: src/index.ts (the command-line pipeline and   *)
(* the PDFWorker external-tool adapter) and src/core/LLMClient.ts (the     *)
(* completion client).                                                     *)
(*                                                                         *)
(* One run of the program is one behaviour.  Every action is one turn of   *)
(* the Node.js event loop: the synchronous start of main, a stdin event,   *)
(* the close or error event of a subprocess, the end of an HTTP request,   *)
(* the firing of the retry timer.  A turn runs the code from the event up  *)
(* to the next await that really suspends, so an action contains all the   *)
(* code between two suspension points.                                     *)
(*                                                                         *)
(* Text is modelled by TLA+ strings where only concatenation is needed     *)
(* (Markdown, standard output, log lines) and by sequences of one-         *)
(* character strings where the code looks at characters (the arguments     *)
(* given to parseInt, the image paths compared by Array.prototype.sort).   *)
(***************************************************************************)
EXTENDS Integers, Sequences, FiniteSets, TLC

(***************************************************************************)
(* Bounds of the model.                                                    *)
(***************************************************************************)
\* The largest page count of an input PDF in the specification Spec.
MaxPages == 3
\* The largest page count of an input PDF in the specification SpecOrder.
MaxLongPages == 11
\* The number of client calls of a run that the environment lets end
\* otherwise than with a response of the expected shape and a non-empty text.
MaxAnomalies == 3
\* The longest image list the client is called with by itself.
MaxImages == 2

(***************************************************************************)
(* Program constants.                                                      *)
(***************************************************************************)
\* completion(..., retryTimes: number = 3)
retryTimes == 3

(***************************************************************************)
(* JavaScript values.                                                      *)
(***************************************************************************)
\* A JavaScript number that is an integer, or NaN (the result of parseInt).
Num(n) == [isNaN |-> FALSE, n |-> n]
NaN == [isNaN |-> TRUE, n |-> 0]

\* a < b, a > b, a === b, a !== b on numbers: every comparison with NaN is
\* false, and NaN !== x is true.
JsLt(a, b) == ~a.isNaN /\ ~b.isNaN /\ a.n < b.n
JsGt(a, b) == ~a.isNaN /\ ~b.isNaN /\ a.n > b.n
JsEq(a, b) == ~a.isNaN /\ ~b.isNaN /\ a.n = b.n
JsNe(a, b) == ~JsEq(a, b)

\* String(x) of a number, as template literals and logger.info produce it.
NumStr(a) == IF a.isNaN THEN "NaN" ELSE ToString(a.n)

\* A JavaScript string value, and undefined.
Str(s) == [type |-> "string", s |-> s]
Undefined == [type |-> "undefined", s |-> ""]

\* The string that `markdown += v` appends: String(v).
JsToString(v) == IF v.type = "undefined" THEN "undefined" ELSE v.s

(***************************************************************************)
(* Characters and decimal numerals.                                        *)
(***************************************************************************)
Digits == <<"0", "1", "2", "3", "4", "5", "6", "7", "8", "9">>

IsDigit(c) == \E d \in 1..10 : Digits[d] = c
DigitValue(c) == (CHOOSE d \in 1..10 : Digits[d] = c) - 1

\* The value of the longest prefix of decimal digits of s, continuing from
\* the value acc of the digits already read.
RECURSIVE DigitPrefixValue(_, _)
DigitPrefixValue(s, acc) ==
    IF s = <<>> \/ ~IsDigit(Head(s))
    THEN acc
    ELSE DigitPrefixValue(Tail(s), 10 * acc + DigitValue(Head(s)))

\* parseInt(s, 10): an optional sign, then the longest prefix of digits;
\* NaN when there is no digit.
ParseInt(s) ==
    LET neg == s # <<>> /\ Head(s) = "-"
        body == IF s # <<>> /\ Head(s) \in {"-", "+"} THEN Tail(s) ELSE s
    IN IF body = <<>> \/ ~IsDigit(Head(body))
       THEN NaN
       ELSE IF neg THEN Num(0 - DigitPrefixValue(body, 0))
                   ELSE Num(DigitPrefixValue(body, 0))

\* The decimal numeral of n >= 0, as a sequence of characters.
RECURSIVE ToDigits(_)
ToDigits(n) ==
    IF n < 10 THEN <<Digits[n + 1]>>
    ELSE ToDigits(n \div 10) \o <<Digits[(n % 10) + 1]>>

\* The characters the model's paths are made of, in ascending order of their
\* UTF-16 code units.
CodeUnits ==
    <<"-", ".", "/", "0", "1", "2", "3", "4", "5", "6", "7", "8", "9",
      "T", "Z", "\\", "a", "e", "g", "i", "j", "m", "o", "p", "s", "t", "u">>

CharCode(c) == CHOOSE k \in 1..Len(CodeUnits) : CodeUnits[k] = c

\* The string made of the characters of s.
RECURSIVE StrOf(_)
StrOf(s) == IF s = <<>> THEN "" ELSE Head(s) \o StrOf(Tail(s))

(***************************************************************************)
(* Paths and the order Array.prototype.sort() puts them in.                *)
(***************************************************************************)
\* a sorts before b: the comparison of two strings by UTF-16 code units that
\* sort() without a comparator uses.
RECURSIVE LexLess(_, _)
LexLess(a, b) ==
    IF b = <<>> THEN FALSE
    ELSE IF a = <<>> THEN TRUE
    ELSE IF Head(a) = Head(b) THEN LexLess(Tail(a), Tail(b))
    ELSE CharCode(Head(a)) < CharCode(Head(b))

\* x put into the ascending sequence sorted, after the elements equal to it.
RECURSIVE Insert(_, _)
Insert(x, sorted) ==
    IF sorted = <<>> THEN <<x>>
    ELSE IF LexLess(x, Head(sorted)) THEN <<x>> \o sorted
    ELSE <<Head(sorted)>> \o Insert(x, Tail(sorted))

RECURSIVE SortFrom(_, _)
SortFrom(rest, sorted) ==
    IF rest = <<>> THEN sorted
    ELSE SortFrom(Tail(rest), Insert(Head(rest), sorted))

\* The listing left as the directory read returned it.
SortPathsUnsorted(paths) == paths

\* imgPaths.sort()
SortPaths(paths) == SortFrom(paths, <<>>)

\* path.join(dir, name) on a POSIX host.
PathJoin(dir, name) == dir \o <<"/">> \o name

\* imgPath.replace(/\\/g, "/")
NormalizePath(p) == [k \in 1..Len(p) |-> IF p[k] = "\\" THEN "/" ELSE p[k]]

\* file.endsWith(".jpg")
EndsWithJpg(name) ==
    /\ Len(name) >= 4
    /\ SubSeq(name, Len(name) - 3, Len(name)) = <<".", "j", "p", "g">>

\* The elements of s that satisfy file.endsWith(".jpg"), in the order of s.
RECURSIVE FilterJpg(_)
FilterJpg(s) ==
    IF s = <<>> THEN <<>>
    ELSE IF EndsWithJpg(Head(s)) THEN <<Head(s)>> \o FilterJpg(Tail(s))
    ELSE FilterJpg(Tail(s))

\* The working directory: path.join("output", <timestamp>), the timestamp
\* being the time of the run with ':' and '.' removed.
OutputDirChars == <<"o", "u", "t", "p", "u", "t", "/", "T", "0", "Z">>
ImageDirChars == PathJoin(OutputDirChars, <<"i", "m", "a", "g", "e", "s">>)
OutputDir == StrOf(OutputDirChars)
InputPdfPath == OutputDir \o "/input.pdf"

\* `extract_${startPage}_${endPage}.pdf` in the working directory.
ExtractPdfPath(startPage, endPage) ==
    OutputDir \o "/extract_" \o NumStr(startPage) \o "_" \o NumStr(endPage)
        \o ".pdf"

(***************************************************************************)
(* The external tools, as far as the program observes them.                *)
(***************************************************************************)
\* k written in at least width digits, with leading zeros.
RECURSIVE ZeroPad(_, _)
ZeroPad(digits, width) ==
    IF Len(digits) >= width THEN digits ELSE ZeroPad(<<"0">> \o digits, width)

\* The file pdftoppm -jpeg writes for page k of an n-page PDF under the
\* prefix "page": the page number has as many digits as n has.
ImageFileName(k, n) ==
    <<"p", "a", "g", "e", "-">> \o ZeroPad(ToDigits(k), Len(ToDigits(n)))
        \o <<".", "j", "p", "g">>

\* The files of the images directory after pdftoppm has rendered the PDF
\* whose pages are `pages`: the name of each file and the page it shows.
RenderedFiles(pages) ==
    { [name |-> ImageFileName(k, Len(pages)), page |-> pages[k]] :
        k \in 1..Len(pages) }

Reverse(s) == [k \in 1..Len(s) |-> s[Len(s) + 1 - k]]
Rotate(s, r) == [k \in 1..Len(s) |-> s[((k - 1 + r) % Len(s)) + 1]]

\* The names of `files` in page order.
NamesInPageOrder(pages) ==
    [k \in 1..Len(pages) |-> ImageFileName(k, Len(pages))]

\* Orders in which fs.readdirSync may list the rendered files: the order is
\* not specified, the model tries every rotation of the page order and of
\* its reverse (for up to three files these are all the orders).
ListingOrders(pages) ==
    IF pages = <<>> THEN {<<>>}
    ELSE LET names == NamesInPageOrder(pages)
         IN { Rotate(names, r) : r \in 0..(Len(pages) - 1) }
            \cup { Reverse(Rotate(names, r)) : r \in 0..(Len(pages) - 1) }

\* The pages pdftk writes for `cat start-end` of a PDF with the given pages,
\* when it succeeds: the range, backwards when start > end.  It cannot
\* succeed when a bound is not a page of the PDF.
RangeIsOfPages(startPage, endPage, pages) ==
    /\ ~startPage.isNaN /\ ~endPage.isNaN
    /\ startPage.n \in 1..Len(pages) /\ endPage.n \in 1..Len(pages)

ExtractedPages(startPage, endPage, pages) ==
    IF startPage.n <= endPage.n
    THEN SubSeq(pages, startPage.n, endPage.n)
    ELSE Reverse(SubSeq(pages, endPage.n, startPage.n))

\* The transcription of the image of page p by the remote model.
PageText(p) == "# Page " \o ToString(p) \o "\n"

(***************************************************************************)
(* The state of a run.                                                     *)
(***************************************************************************)
VARIABLES
    pc,             \* where the run is suspended: "start", "reading",
                    \* "pdfinfo", "pdftk", "pdftoppm" (subprocess running),
                    \* "http" (request in flight), "delay" (retry timer set),
                    \* "rejected" (the 'end' listener's promise rejected),
                    \* "exited"
    exitCode,       \* the process exit code, -1 while the process runs
    argv,           \* process.argv.slice(2), each argument a character sequence
    apiKey,         \* process.env.OPENAI_API_KEY, "" when unset
    stdinRest,      \* the bytes of standard input not yet delivered
    chunks,         \* main: chunks
    startPage,      \* main: startPage
    endPage,        \* main: endPage
    totalPages,     \* main: totalPages, 0 before pdfinfo has answered
    dirExists,      \* the working directory exists
    inputPdf,       \* the pages of <outputDir>/input.pdf, <<>> before it is saved
    extractPdf,     \* the pages of the PDF pdftk wrote, <<>> when there is none
    extractPath,    \* main: extractPath, "" before it is set
    imageFiles,     \* the files of <outputDir>/images: [name, page]
    spawns,         \* the subprocesses spawned so far, in order
    listed,         \* the paths convertToImages resolved with, as a set
    shuffled,       \* they were resolved in another order than the sorted one
    imgPaths,       \* main: imgPaths (sorted in place by the loop header)
    idx,            \* the position of the for...of loop in imgPaths
    i,              \* completion: the retry loop counter
    attemptLog,     \* the outcome of each client call made for the current image
    markdown,       \* main: markdown
    returned,       \* one entry for each image whose transcription returned
    stdout,         \* the texts written to standard output, in order
    stderr,         \* the texts written to standard error, in order
    mainPromise,    \* the promise main awaits: "pending" or "fulfilled"
    rejection,      \* the reason the 'end' listener's promise rejected with
    call,           \* the arguments of the client call being made
    requests,       \* the HTTP requests sent so far, in order
    inFlight,       \* the subprocesses and requests started and not yet ended
    delays          \* the retry timers set for the current image

vars ==
    <<pc, exitCode, argv, apiKey, stdinRest, chunks, startPage, endPage,
      totalPages, dirExists, inputPdf, extractPdf, extractPath, imageFiles,
      spawns, listed, shuffled, imgPaths, idx, i, attemptLog, markdown,
      returned,
      stdout, stderr, mainPromise, rejection, call, requests, inFlight,
      delays>>

\* The state as a record, for the operators that compute a turn's effect.
Cur ==
    [pc |-> pc, exitCode |-> exitCode, argv |-> argv, apiKey |-> apiKey,
     stdinRest |-> stdinRest, chunks |-> chunks, startPage |-> startPage,
     endPage |-> endPage, totalPages |-> totalPages, dirExists |-> dirExists,
     inputPdf |-> inputPdf, extractPdf |-> extractPdf,
     extractPath |-> extractPath, imageFiles |-> imageFiles,
     spawns |-> spawns, listed |-> listed, shuffled |-> shuffled,
     imgPaths |-> imgPaths,
     idx |-> idx, i |-> i, attemptLog |-> attemptLog, markdown |-> markdown,
     returned |-> returned, stdout |-> stdout, stderr |-> stderr,
     mainPromise |-> mainPromise, rejection |-> rejection,
     call |-> call, requests |-> requests, inFlight |-> inFlight,
     delays |-> delays]

\* f applied to the value of v: the state a step of the code has produced is
\* computed once, then handed to the code that follows.
Then(v, f(_)) == CHOOSE r \in { f(x) : x \in {v} } : TRUE

\* The next state is the record r.
Set(r) ==
    \E s \in {r} :
        /\ pc' = s.pc /\ exitCode' = s.exitCode /\ argv' = s.argv
        /\ apiKey' = s.apiKey /\ stdinRest' = s.stdinRest /\ chunks' = s.chunks
        /\ startPage' = s.startPage /\ endPage' = s.endPage
        /\ totalPages' = s.totalPages /\ dirExists' = s.dirExists
        /\ inputPdf' = s.inputPdf /\ extractPdf' = s.extractPdf
        /\ extractPath' = s.extractPath /\ imageFiles' = s.imageFiles
        /\ spawns' = s.spawns /\ listed' = s.listed /\ shuffled' = s.shuffled
        /\ imgPaths' = s.imgPaths
        /\ idx' = s.idx /\ i' = s.i /\ attemptLog' = s.attemptLog
        /\ markdown' = s.markdown /\ returned' = s.returned
        /\ stdout' = s.stdout /\ stderr' = s.stderr
        /\ mainPromise' = s.mainPromise /\ rejection' = s.rejection
        /\ call' = s.call /\ requests' = s.requests /\ inFlight' = s.inFlight
        /\ delays' = s.delays

(***************************************************************************)
(* Logging and process exit.                                               *)
(***************************************************************************)
\* new Date().toISOString(): the time of the call, whatever it is.
Timestamp == "<time>"

\* logger.info(message, ...args), the placeholders of message already
\* replaced by the arguments: console.info writes the line to standard output.
LogInfo(s, message) ==
    [s EXCEPT !.stdout = Append(@, Timestamp \o " - INFO - " \o message \o "\n")]

\* logger.error(message): console.error writes the line to standard error.
LogError(s, message) ==
    [s EXCEPT !.stderr = Append(@, Timestamp \o " - ERROR - " \o message \o "\n")]

\* console.error(text) of the completion client.
ConsoleError(s, text) == [s EXCEPT !.stderr = Append(@, text \o "\n")]

\* console.log(text)
ConsoleLog(s, text) == [s EXCEPT !.stdout = Append(@, text \o "\n")]

\* process.exit(code)
Exit(s, code) == [s EXCEPT !.pc = "exited", !.exitCode = code]

\* The rejection caught and dropped: nothing is left to happen.
RejectSwallowed(s, reason) == [s EXCEPT !.pc = "swallowed", !.rejection = reason]

\* A rejection inside the async 'end' listener: the listener's own promise
\* rejects.  Nothing awaits that promise, and the promise main awaits is
\* settled by resolve() alone, so it stays pending.
Reject(s, reason) == [s EXCEPT !.pc = "rejected", !.rejection = reason]

UsageArgs == "Usage: ts-node index.ts [start_page] [end_page] < path_to_input.md"
UsageInput == "Usage: ts-node index.ts [start_page] [end_page] < path_to_input.pdf"

(***************************************************************************)
(* main, up to the wait for the end of standard input.                     *)
(***************************************************************************)
\* if (args.length > 1) {...} else if (args.length > 0) {...}
ParseArgs(s) ==
    IF Len(s.argv) > 1
    THEN [s EXCEPT !.startPage = ParseInt(s.argv[1]),
                   !.endPage = ParseInt(s.argv[2])]
    ELSE IF Len(s.argv) > 0
    THEN [s EXCEPT !.startPage = Num(1), !.endPage = ParseInt(s.argv[1])]
    ELSE s

\* main from its first line to `await new Promise(...)`.
MainStart(s) ==
    IF Len(s.argv) = 0
    THEN Exit(LogError(s, UsageArgs), 1)
    ELSE [ParseArgs(s) EXCEPT !.pc = "reading"]

\* Buffer.concat(chunks)
RECURSIVE Concat(_)
Concat(cs) == IF cs = <<>> THEN <<>> ELSE Head(cs) \o Concat(Tail(cs))

\* An external operation starts, and ends: its promise settles.
Started(s, op) == [s EXCEPT !.inFlight = Append(@, op)]

RECURSIVE Without(_, _)
Without(ops, op) ==
    IF ops = <<>> THEN <<>>
    ELSE IF Head(ops) = op THEN Tail(ops)
    ELSE <<Head(ops)>> \o Without(Tail(ops), op)

Ended(s, op) == [s EXCEPT !.inFlight = Without(@, op)]

\* spawn(tool, [...]) with the PDF it is given and, for pdftk, the range.
Spawn(s, tool, pdf, range) ==
    Started([s EXCEPT !.spawns = Append(@, [tool |-> tool, pdf |-> pdf,
                                            range |-> range])],
            tool)

NoRange == <<>>

\* The listener with the working directory made before the input is looked
\* at.
OnStdinEndMkdirFirst(s) ==
    LET inputData == Concat(s.chunks)
        made == [s EXCEPT !.dirExists = TRUE]
    IN IF Len(inputData) = 0
       THEN Exit(LogError(LogError(made, "No input data received"), UsageInput), 1)
       ELSE [Spawn([made EXCEPT !.inputPdf = inputData],
                   "pdfinfo", InputPdfPath, NoRange)
               EXCEPT !.pc = "pdfinfo"]

\* The 'end' listener up to `await pdfWorker.getTotalPages()`.
OnStdinEnd(s) ==
    LET inputData == Concat(s.chunks)
    IN IF Len(inputData) = 0
       THEN Exit(LogError(LogError(s, "No input data received"), UsageInput), 1)
       ELSE [Spawn([s EXCEPT !.dirExists = TRUE, !.inputPdf = inputData],
                   "pdfinfo", InputPdfPath, NoRange)
               EXCEPT !.pc = "pdfinfo"]

(***************************************************************************)
(* The completion client (LLMClient.completion) and the retry wrapper      *)
(* (completion), the transcription loop of main and the end of the run.    *)
(***************************************************************************)
\* The body of an HTTP-successful response, response.data: each level of
\* {candidates: [{content: {parts: [{text}]}}]} may be absent.
Part(hasText, text) == [hasText |-> hasText, text |-> text]
Candidate(hasContent, hasParts, parts) ==
    [hasContent |-> hasContent, hasParts |-> hasParts, parts |-> parts]
Data(present, hasCandidates, candidates) ==
    [present |-> present, hasCandidates |-> hasCandidates,
     candidates |-> candidates]

\* The bodies the endpoint may answer with for an image whose transcription
\* is text.
ResponseDatas(text) ==
    { Data(FALSE, FALSE, <<>>),
      Data(TRUE, FALSE, <<>>),
      Data(TRUE, TRUE, <<>>),
      Data(TRUE, TRUE, <<Candidate(FALSE, FALSE, <<>>)>>),
      Data(TRUE, TRUE, <<Candidate(TRUE, FALSE, <<>>)>>),
      Data(TRUE, TRUE, <<Candidate(TRUE, TRUE, <<>>)>>),
      Data(TRUE, TRUE, <<Candidate(TRUE, TRUE, <<Part(FALSE, "")>>)>>),
      Data(TRUE, TRUE, <<Candidate(TRUE, TRUE, <<Part(TRUE, "")>>)>>),
      Data(TRUE, TRUE, <<Candidate(TRUE, TRUE, <<Part(TRUE, text)>>)>>) }

\* LLMClient.completion after `await axios.post(...)` has returned: a part
\* without a text field yields undefined.
ParseResponse(data) ==
    IF /\ data.present
       /\ data.hasCandidates
       /\ Len(data.candidates) > 0
       /\ data.candidates[1].hasContent
       /\ data.candidates[1].hasParts
       /\ Len(data.candidates[1].parts) > 0
    THEN IF data.candidates[1].parts[1].hasText
         THEN Str(data.candidates[1].parts[1].text)
         ELSE Undefined
    ELSE Str("")

\* The image the loop is at: imgPath.replace(/\\/g, "/").
CurrentImage(s) == NormalizePath(s.imgPaths[s.idx])

\* The arguments of client.completion: imagePaths is null or a list of
\* paths.
ImageList(isNull, paths) == [isNull |-> isNull, paths |-> paths]
ClientCall(userMessage, systemPrompt, imagePaths) ==
    [userMessage |-> userMessage, systemPrompt |-> systemPrompt,
     imagePaths |-> imagePaths]
NoCall == ClientCall("", "", ImageList(TRUE, <<>>))

\* userPrompt of convertImageToMarkdown (its first words).
UserPrompt == "Please read the content in the image and transcribe it into Markdown"

\* { text: userMessage }
TextEntry(userMessage) == [text |-> userMessage]

\* fs.readFileSync(imagePath).toString("base64"): the bytes of the file at
\* the path, encoded.
Base64Image(path) == <<"base64", path>>

\* { type: "image", source: { type: "base64", media_type, data } }
ImageEntry(path) ==
    [type |-> "image",
     source |-> [type |-> "base64", media_type |-> "image/jpeg",
                 data |-> Base64Image(path)]]

\* The content of a message: one entry, or a list of entries.
Content(isList, items) == [isList |-> isList, items |-> items]
Message(role, content) == [role |-> role, content |-> content]

\* for (const imagePath of imagePaths) {...}: the entries pushed, up to the
\* first file that cannot be read, whose error is thrown.
RECURSIVE ReadImages(_, _)
ReadImages(paths, unreadable) ==
    IF paths = <<>>
    THEN [thrown |-> FALSE, path |-> <<>>, entries |-> <<>>]
    ELSE IF Head(paths) \in unreadable
    THEN [thrown |-> TRUE, path |-> Head(paths), entries |-> <<>>]
    ELSE LET rest == ReadImages(Tail(paths), unreadable)
         IN [rest EXCEPT !.entries = <<ImageEntry(Head(paths))>> \o @]

\* imagePaths && imagePaths.length > 0
HasImages(c) == ~c.imagePaths.isNull /\ Len(c.imagePaths.paths) > 0

\* The messages with the system turn put in whatever the system prompt.
BuildMessagesAlwaysSystem(c, entries) ==
    <<Message("system", c.systemPrompt),
      Message("user", IF HasImages(c)
                      THEN Content(TRUE, <<TextEntry(c.userMessage)>> \o entries)
                      ELSE Content(FALSE, <<TextEntry(c.userMessage)>>))>>

\* messages: the system message if the prompt is not empty, then the user
\* message with userContent.
BuildMessages(c, entries) ==
    LET system == IF c.systemPrompt # ""
                  THEN <<Message("system", c.systemPrompt)>>
                  ELSE <<>>
        userContent == IF HasImages(c)
                       THEN Content(TRUE, <<TextEntry(c.userMessage)>> \o entries)
                       ELSE Content(FALSE, <<TextEntry(c.userMessage)>>)
    IN system \o <<Message("user", userContent)>>

\* client.completion from its first line to the payload: the error of a
\* file that cannot be read, or the payload to post.
ClientRequest(c, unreadable) ==
    LET read == IF HasImages(c)
                THEN ReadImages(c.imagePaths.paths, unreadable)
                ELSE ReadImages(<<>>, unreadable)
    IN [thrown |-> read.thrown, path |-> read.path,
        payload |-> [messages |-> BuildMessages(c, read.entries)]]

\* axios.post(url, payload, {...}): the request leaves.
Send(s, payload) ==
    [Started([s EXCEPT !.requests = Append(@, [payload |-> payload,
                                               idx |-> s.idx,
                                               returned |-> Len(s.returned)])],
             "http")
       EXCEPT !.pc = "http"]

\* The catch block of the retry loop: log, then wait 500ms.
CatchFailure(s, kind) ==
    [LogError([s EXCEPT !.attemptLog = Append(@, [kind |-> kind, value |-> Undefined])],
              "LLM call failed: " \o kind)
       EXCEPT !.pc = "delay", !.delays = @ + 1]

\* The client call with the request posted before the image is read.
ClientCompletionPostsFirst(s, readable) ==
    LET r == ClientRequest(s.call, IF readable THEN {} ELSE {CurrentImage(s)})
    IN IF r.thrown
       THEN CatchFailure(
                ConsoleError(Ended(Send(s, r.payload), "http"),
                             "Error reading image file " \o StrOf(r.path)),
                "read error")
       ELSE Send(s, r.payload)

\* client.completion(...) up to `await axios.post(...)`: the image is read
\* before the request is sent, and a read error is thrown to the retry loop.
ClientCompletion(s, readable) ==
    LET r == ClientRequest(s.call, IF readable THEN {} ELSE {CurrentImage(s)})
    IN IF r.thrown
       THEN CatchFailure(
                ConsoleError(s, "Error reading image file " \o StrOf(r.path)),
                "read error")
       ELSE Send(s, r.payload)

\* client.completion called by itself, up to `await axios.post(...)`: the
\* error of the file that cannot be read is logged and thrown to the caller.
OnClientCall(s, unreadable) ==
    LET r == ClientRequest(s.call, unreadable)
    IN IF r.thrown
       THEN [ConsoleError(s, "Error reading image file " \o StrOf(r.path))
               EXCEPT !.pc = "thrown"]
       ELSE Send(s, r.payload)

\* client.completion called by itself, from the end of the request: the
\* error is logged and thrown, or the text of the response is returned.
OnClientHttpDone(s, resp) ==
    LET e == Ended(s, "http")
    IN IF ~resp.ok
       THEN [ConsoleError(e, "Error calling LLM API") EXCEPT !.pc = "thrown"]
       ELSE [e EXCEPT !.pc = "returned",
                      !.attemptLog = Append(@, [kind |-> "ok",
                                                value |-> ParseResponse(resp.data),
                                                data |-> resp.data])]

\* The end of the run: the Markdown is printed, the working directory is
\* removed, the promise main awaits is resolved and the process exits.
Finish(s) ==
    LET printed == ConsoleLog(LogInfo(s, "Image conversion to Markdown completed"),
                              s.markdown)
    IN Exit([printed EXCEPT !.dirExists = FALSE, !.inputPdf = <<>>,
                            !.extractPdf = <<>>, !.imageFiles = {},
                            !.mainPromise = "fulfilled"],
            0)

RECURSIVE LoopHead(_, _)

\* completion returns v to convertImageToMarkdown, which returns it to the
\* loop body: the fragment and the separator are appended, and the loop
\* goes on.
WrapperReturn(s, v, readable) ==
    LET md == s.markdown \o JsToString(v) \o "\n\n"
        r == [s EXCEPT !.markdown = md,
                       !.returned = Append(@, [path |-> CurrentImage(s),
                                               value |-> v,
                                               log |-> s.attemptLog,
                                               before |-> s.markdown,
                                               after |-> md,
                                               delays |-> s.delays]),
                       !.idx = @ + 1]
    IN Then(LogInfo(r, "Markdown info " \o md), LAMBDA t : LoopHead(t, readable))

\* The retry loop with the error thrown once the attempts are used up.
RetryLoopRethrows(s, readable) ==
    IF s.i < retryTimes
    THEN ClientCompletion(s, readable)
    ELSE Reject(s, "Error: LLM call failed")

\* The retry loop with the test i <= retryTimes.
RetryLoopOneMore(s, readable) ==
    IF s.i <= retryTimes
    THEN ClientCompletion(s, readable)
    ELSE WrapperReturn(s, Str(""), readable)

\* for (let i = 0; i < retryTimes; i++) { try {...} catch {...} } return "";
\* entered at the loop test.
RetryLoop(s, readable) ==
    IF s.i < retryTimes
    THEN ClientCompletion(s, readable)
    ELSE WrapperReturn(s, Str(""), readable)

\* completion(...) without the test of the API key.
CompletionStartNoKeyCheck(s, readable) ==
    Then([s EXCEPT !.i = 0, !.attemptLog = <<>>, !.delays = 0,
                   !.call = ClientCall(UserPrompt, "",
                                       ImageList(FALSE, <<CurrentImage(s)>>))],
         LAMBDA t : RetryLoop(t, readable))

\* completion(...) from its first line to the first client call.
CompletionStart(s, readable) ==
    IF s.apiKey = ""
    THEN Exit(LogError(s, "Please set the OPENAI_API_KEY environment variables"), 1)
    ELSE Then([s EXCEPT !.i = 0, !.attemptLog = <<>>, !.delays = 0,
                        !.call = ClientCall(UserPrompt, "",
                                            ImageList(FALSE, <<CurrentImage(s)>>))],
              LAMBDA t : RetryLoop(t, readable))

\* for (const imgPath of imgPaths.sort()) {...}, entered at the loop test,
\* and what follows the loop.
LoopHead(s, readable) ==
    IF s.idx > Len(s.imgPaths)
    THEN Finish(s)
    ELSE Then(LogInfo(s, "Converting image " \o StrOf(CurrentImage(s)) \o " to Markdown"),
              LAMBDA t : CompletionStart(t, readable))

\* The retry timer fires: i++ and the loop test.
OnTimer(s, readable) ==
    Then([s EXCEPT !.i = @ + 1], LAMBDA t : RetryLoop(t, readable))

\* The HTTP request ends: with an error, which the client logs and throws,
\* or with a response, whose text the client and the wrapper return.
OnHttpDone(s, resp, readable) ==
    LET e == Ended(s, "http")
    IN IF ~resp.ok
       THEN CatchFailure(ConsoleError(e, "Error calling LLM API"), "request error")
       ELSE LET v == ParseResponse(resp.data)
            IN Then([e EXCEPT !.attemptLog = Append(@, [kind |-> "ok", value |-> v])],
                    LAMBDA t : WrapperReturn(t, v, readable))

(***************************************************************************)
(* The 'end' listener from the page count to the transcription loop.       *)
(***************************************************************************)
\* The clamps with the start page compared by >= to the page count.
ResolveRangeStartOff(s) ==
    LET total == Num(s.totalPages)
    IN [s EXCEPT
          !.startPage = IF JsLt(@, Num(1)) \/ ~JsLt(@, total) THEN Num(1) ELSE @,
          !.endPage = IF JsEq(@, Num(0)) \/ JsGt(@, total) THEN total ELSE @]

\* The two clamps that follow `await pdfWorker.getTotalPages()`.
ResolveRange(s) ==
    LET total == Num(s.totalPages)
    IN [s EXCEPT
          !.startPage = IF JsLt(@, Num(1)) \/ JsGt(@, total) THEN Num(1) ELSE @,
          !.endPage = IF JsEq(@, Num(0)) \/ JsGt(@, total) THEN total ELSE @]

\* The test with && for ||.
NeedsExtractBoth(s) ==
    JsNe(s.startPage, Num(1)) /\ JsNe(s.endPage, Num(s.totalPages))

\* startPage !== 1 || endPage !== totalPages
NeedsExtract(s) ==
    JsNe(s.startPage, Num(1)) \/ JsNe(s.endPage, Num(s.totalPages))

\* new PDFWorker(extractPath).convertToImages(outputDir) up to the spawn of
\* pdftoppm.
StartRasterize(s) ==
    [Spawn(s, "pdftoppm", s.extractPath, NoRange) EXCEPT !.pc = "pdftoppm"]

\* The listener with extractPages(...) called and not awaited.
AfterTotalPagesNoAwait(s, n) ==
    LET r == ResolveRange([s EXCEPT !.totalPages = n])
        logged == LogInfo(r, "Start processing from page " \o NumStr(r.startPage)
                                 \o " to page " \o NumStr(r.endPage))
        whole == [logged EXCEPT !.extractPath = InputPdfPath]
    IN IF NeedsExtract(whole)
       THEN StartRasterize(Spawn(whole, "pdftk", InputPdfPath,
                                 <<whole.startPage, whole.endPage>>))
       ELSE StartRasterize(whole)

\* The 'end' listener from the resolution of getTotalPages() with n to its
\* next await.
AfterTotalPages(s, n) ==
    LET r == ResolveRange([s EXCEPT !.totalPages = n])
        logged == LogInfo(r, "Start processing from page " \o NumStr(r.startPage)
                                 \o " to page " \o NumStr(r.endPage))
    IN Then([logged EXCEPT !.extractPath = InputPdfPath],
            LAMBDA whole :
              IF NeedsExtract(whole)
              THEN [Spawn(whole, "pdftk", InputPdfPath,
                          <<whole.startPage, whole.endPage>>)
                      EXCEPT !.pc = "pdftk"]
              ELSE StartRasterize(whole))

\* What pdfinfo may end with for the saved PDF: a non-zero exit code, or
\* exit code 0 and an output with or without the line "Pages: <n>".
PdfinfoResult(code, match, digits) ==
    [code |-> code, match |-> match, digits |-> digits]

PdfinfoResults(pages) ==
    { PdfinfoResult(1, FALSE, <<>>),
      PdfinfoResult(0, FALSE, <<>>),
      PdfinfoResult(0, TRUE, ToDigits(Len(pages))) }

\* getTotalPages: the 'close' listener of pdfinfo, and what the 'end'
\* listener does with the page count.
OnPdfinfoClose(s, out) ==
    LET e == Ended(s, "pdfinfo")
    IN IF out.code # 0
       THEN Reject(e, "Error: pdfinfo exited with code " \o ToString(out.code))
       ELSE IF out.match /\ out.digits # <<>>
       THEN AfterTotalPages(e, ParseInt(out.digits).n)
       ELSE Reject(e, "Error: Could not determine page count")

\* extractPages: the 'close' listener of pdftk, which has written the pages
\* `pages` when the code is 0, and the 'end' listener up to the spawn of
\* pdftoppm.
OnPdftkClose(s, code, pages) ==
    LET e == Ended(s, "pdftk")
    IN IF code # 0
       THEN Reject(e, "Error: pdftk exited with code " \o ToString(code))
       ELSE LET outputPath == ExtractPdfPath(e.startPage, e.endPage)
            IN StartRasterize(
                   LogInfo([e EXCEPT !.extractPdf = pages, !.extractPath = outputPath],
                           "Extract pages to " \o outputPath))

\* The pages of the PDF at path.
PdfAt(s, path) == IF path = InputPdfPath THEN s.inputPdf ELSE s.extractPdf

\* convertToImages: the 'close' listener of pdftoppm, which has rendered the
\* PDF when the code is 0; the directory is read in the order `order`.  Then
\* the 'end' listener sorts the paths and enters the transcription loop.
OnPdftoppmClose(s, code, readdirOk, order, readable) ==
    IF code # 0
    THEN Reject(Ended(s, "pdftoppm"),
                "Error: pdftoppm exited with code " \o ToString(code))
    ELSE LET rendered == [Ended(s, "pdftoppm") EXCEPT
                            !.imageFiles = RenderedFiles(PdfAt(s, s.extractPath))]
         IN IF ~readdirOk
            THEN Reject(rendered, "Error: Failed to read image directory")
            ELSE LET jpgs == FilterJpg(order)
                     files == [k \in 1..Len(jpgs) |-> PathJoin(ImageDirChars, jpgs[k])]
                     sorted == SortPaths(files)
                     r == LogInfo([rendered EXCEPT
                                     !.listed = {files[k] : k \in 1..Len(files)},
                                     !.shuffled = (files # sorted)],
                                  "Image conversion completed")
                 IN Then([r EXCEPT !.imgPaths = sorted,
                                   !.idx = 1, !.markdown = ""],
                         LAMBDA t : LoopHead(t, readable))

\* The 'error' listener of the subprocess that is running.
OnSpawnError(s) ==
    LET tool == s.spawns[Len(s.spawns)].tool
    IN Reject(Ended(s, tool), "Error: Failed to run " \o tool)

\* Node.js finds the rejected promise of the 'end' listener unhandled.  In
\* the mode "throw" (the default since Node.js 15) it raises an uncaught
\* exception: the error is printed and the process exits with code 1.  In
\* the mode "warn" (the default before) it prints a warning, and the process
\* ends with code 0 once nothing is left to do.
OnUnhandledRejection(s, mode) ==
    IF mode = "throw"
    THEN Exit(ConsoleError(s, "Uncaught " \o s.rejection), 1)
    ELSE Exit(ConsoleError(s, "UnhandledPromiseRejectionWarning: " \o s.rejection), 0)

(***************************************************************************)
(* The runs.                                                               *)
(***************************************************************************)
\* The command lines of the specification Spec: no argument, the whole
\* document, an end page, a range, a range given backwards, a negative end
\* page, an argument that is no number.
ArgVectors ==
    { <<>>, << <<"0">> >>, << <<"2">> >>, << <<"2">>, <<"3">> >>,
      << <<"3">>, <<"1">> >>, << <<"1">>, <<"-", "1">> >>, << <<"x">> >> }

\* A PDF of n pages: what matters of its bytes is the pages they hold.
Pdf(n) == [k \in 1..n |-> k]

Init ==
    /\ pc = "start"
    /\ exitCode = -1
    /\ argv \in ArgVectors
    /\ apiKey \in {"", "key"}
    /\ stdinRest \in {<<>>} \cup { Pdf(n) : n \in 1..MaxPages }
    /\ chunks = <<>>
    /\ startPage = Num(1)
    /\ endPage = Num(0)
    /\ totalPages = 0
    /\ dirExists = FALSE
    /\ inputPdf = <<>>
    /\ extractPdf = <<>>
    /\ extractPath = ""
    /\ imageFiles = {}
    /\ spawns = <<>>
    /\ listed = {}
    /\ shuffled = FALSE
    /\ imgPaths = <<>>
    /\ idx = 0
    /\ i = 0
    /\ attemptLog = <<>>
    /\ markdown = ""
    /\ returned = <<>>
    /\ stdout = <<>>
    /\ stderr = <<>>
    /\ mainPromise = "pending"
    /\ rejection = ""
    /\ call = NoCall
    /\ requests = <<>>
    /\ inFlight = <<>>
    /\ delays = 0

\* main is called.
Main == pc = "start" /\ Set(MainStart(Cur))

\* A 'data' event of standard input, which delivers the next k bytes:
\* chunks.push(chunk).
StdinData(k) ==
    /\ pc = "reading"
    /\ k \in 1..Len(stdinRest)
    /\ Set([Cur EXCEPT !.chunks = Append(@, SubSeq(stdinRest, 1, k)),
                       !.stdinRest = SubSeq(stdinRest, k + 1, Len(stdinRest))])

\* The 'end' event of standard input.
StdinEnd == pc = "reading" /\ stdinRest = <<>> /\ Set(OnStdinEnd(Cur))

PdfinfoClose(out) == pc = "pdfinfo" /\ Set(OnPdfinfoClose(Cur, out))

PdftkClose(code) ==
    /\ pc = "pdftk"
    /\ code = 0 => RangeIsOfPages(startPage, endPage, inputPdf)
    /\ Set(OnPdftkClose(Cur, code,
                        IF code = 0
                        THEN ExtractedPages(startPage, endPage, inputPdf)
                        ELSE <<>>))

PdftoppmClose(code, readdirOk, order, readable) ==
    /\ pc = "pdftoppm"
    /\ Set(OnPdftoppmClose(Cur, code, readdirOk, order, readable))

SpawnError ==
    /\ pc \in {"pdfinfo", "pdftk", "pdftoppm"}
    /\ Set(OnSpawnError(Cur))

\* The answer to the request for the image the loop is at.
HttpDone(resp, readable) == pc = "http" /\ Set(OnHttpDone(Cur, resp, readable))

Timer(readable) == pc = "delay" /\ Set(OnTimer(Cur, readable))

UnhandledRejection(mode) ==
    pc = "rejected" /\ Set(OnUnhandledRejection(Cur, mode))

\* The page the image at path shows.
PageOfImage(path) ==
    (CHOOSE f \in imageFiles : PathJoin(ImageDirChars, f.name) = path).page

\* The answer with the expected shape and the transcription of the image.
GoodAnswer(text) ==
    [ok |-> TRUE,
     data |-> Data(TRUE, TRUE, <<Candidate(TRUE, TRUE, <<Part(TRUE, text)>>)>>)]

HttpResults(text) ==
    {[ok |-> FALSE, data |-> Data(FALSE, FALSE, <<>>)]}
        \cup { [ok |-> TRUE, data |-> d] : d \in ResponseDatas(text) }

\* The client calls that went wrong so far in the run.
RECURSIVE AnomaliesIn(_)
AnomaliesIn(log) ==
    IF log = <<>> THEN 0
    ELSE (IF Head(log).kind = "ok" /\ Head(log).value \notin {Str(""), Undefined}
          THEN 0 ELSE 1) + AnomaliesIn(Tail(log))

RECURSIVE AnomaliesOf(_)
AnomaliesOf(entries) ==
    IF entries = <<>> THEN 0
    ELSE AnomaliesIn(Head(entries).log) + AnomaliesOf(Tail(entries))

Anomalies == AnomaliesOf(returned) + AnomaliesIn(attemptLog)

\* The answers the environment may still give, and whether the next read of
\* an image may still fail, n calls having gone wrong.
AnswersAfter(n, text) ==
    IF n < MaxAnomalies THEN HttpResults(text) ELSE {GoodAnswer(text)}
ReadableAfter(n) == IF n < MaxAnomalies THEN BOOLEAN ELSE {TRUE}

Next ==
    \/ Main
    \/ \E k \in {1, Len(stdinRest)} : StdinData(k)
    \/ StdinEnd
    \/ \E out \in PdfinfoResults(inputPdf) : PdfinfoClose(out)
    \/ \E code \in {0, 1} : PdftkClose(code)
    \/ pc = "pdftoppm"
         /\ \E code \in {0, 1}, readdirOk \in BOOLEAN, readable \in ReadableAfter(0) :
              \E order \in ListingOrders(PdfAt(Cur, extractPath)) :
                PdftoppmClose(code, readdirOk, order, readable)
    \/ SpawnError
    \/ pc = "http"
         /\ \E resp \in AnswersAfter(Anomalies, PageText(PageOfImage(imgPaths[idx]))) :
              \E readable \in ReadableAfter(Anomalies
                                 + AnomaliesIn(<<[kind |-> IF resp.ok THEN "ok" ELSE "request error",
                                                  value |-> ParseResponse(resp.data)]>>)) :
                HttpDone(resp, readable)
    \/ \E readable \in ReadableAfter(Anomalies) : Timer(readable)
    \/ \E mode \in {"throw", "warn"} : UnhandledRejection(mode)


\* Every run on the command lines of ArgVectors and the PDFs of up to
\* MaxPages pages.
Spec == Init /\ [][Next]_vars

\* The runs of Spec in which what is awaited happens: standard input
\* delivers its bytes and ends, a running subprocess emits 'close' or
\* 'error', a request in flight ends, a timer that is set fires, and
\* Node.js handles a rejection left unhandled.
SpecLive == Init /\ [][Next]_vars /\ WF_vars(Next)

(***************************************************************************)
(* SpecRange: the runs up to the first transcription request, on every     *)
(* command line of one or two arguments drawn from ArgStrings.             *)
(***************************************************************************)
ArgStrings ==
    { <<"0">>, <<"1">>, <<"2">>, <<"3">>, <<"1", "0">>, <<"-", "1">>,
      <<"-", "2", "0">>, <<"x">>, <<"2", "x">> }

RangeArgVectors ==
    { <<a>> : a \in ArgStrings } \cup { <<a, b>> : a \in ArgStrings, b \in ArgStrings }

InitRange ==
    /\ pc = "start" /\ exitCode = -1
    /\ argv \in RangeArgVectors
    /\ apiKey \in {"", "key"}
    /\ stdinRest \in { Pdf(n) : n \in 1..MaxPages }
    /\ chunks = <<>> /\ startPage = Num(1) /\ endPage = Num(0)
    /\ totalPages = 0 /\ dirExists = FALSE /\ inputPdf = <<>>
    /\ extractPdf = <<>> /\ extractPath = "" /\ imageFiles = {}
    /\ spawns = <<>> /\ listed = {} /\ shuffled = FALSE /\ imgPaths = <<>>
    /\ idx = 0 /\ i = 0 /\ attemptLog = <<>> /\ markdown = ""
    /\ returned = <<>> /\ stdout = <<>> /\ stderr = <<>>
    /\ mainPromise = "pending" /\ rejection = ""
    /\ call = NoCall /\ requests = <<>> /\ inFlight = <<>> /\ delays = 0

NextRange ==
    \/ Main
    \/ StdinData(Len(stdinRest))
    \/ StdinEnd
    \/ \E out \in PdfinfoResults(inputPdf) : PdfinfoClose(out)
    \/ \E code \in {0, 1} : PdftkClose(code)
    \/ pc = "pdftoppm"
         /\ \E code \in {0, 1}, readdirOk \in BOOLEAN :
              PdftoppmClose(code, readdirOk,
                            NamesInPageOrder(PdfAt(Cur, extractPath)), TRUE)
    \/ SpawnError
    \/ \E mode \in {"throw", "warn"} : UnhandledRejection(mode)

SpecRange == InitRange /\ [][NextRange]_vars

(***************************************************************************)
(* SpecOrder: the runs in which no step fails, on PDFs of 9 to             *)
(* MaxLongPages pages, whole or from page 2 on.                            *)
(***************************************************************************)
InitOrder ==
    /\ pc = "start" /\ exitCode = -1
    /\ argv \in { << <<"0">> >>, << <<"2">>, <<"0">> >> }
    /\ apiKey = "key"
    /\ stdinRest \in { Pdf(n) : n \in 9..MaxLongPages }
    /\ chunks = <<>> /\ startPage = Num(1) /\ endPage = Num(0)
    /\ totalPages = 0 /\ dirExists = FALSE /\ inputPdf = <<>>
    /\ extractPdf = <<>> /\ extractPath = "" /\ imageFiles = {}
    /\ spawns = <<>> /\ listed = {} /\ shuffled = FALSE /\ imgPaths = <<>>
    /\ idx = 0 /\ i = 0 /\ attemptLog = <<>> /\ markdown = ""
    /\ returned = <<>> /\ stdout = <<>> /\ stderr = <<>>
    /\ mainPromise = "pending" /\ rejection = ""
    /\ call = NoCall /\ requests = <<>> /\ inFlight = <<>> /\ delays = 0

NextOrder ==
    \/ Main
    \/ StdinData(Len(stdinRest))
    \/ StdinEnd
    \/ PdfinfoClose(PdfinfoResult(0, TRUE, ToDigits(Len(inputPdf))))
    \/ PdftkClose(0)
    \/ pc = "pdftoppm"
         /\ \E order \in ListingOrders(PdfAt(Cur, extractPath)) :
              PdftoppmClose(0, TRUE, order, TRUE)
    \/ pc = "http"
         /\ HttpDone(GoodAnswer(PageText(PageOfImage(imgPaths[idx]))), TRUE)

SpecOrder == InitOrder /\ [][NextOrder]_vars

(***************************************************************************)
(* SpecRequest: the completion client called by itself, with and without   *)
(* system prompt, with no image list, an empty one and lists of up to      *)
(* MaxImages of the paths of ImagePathSet, some of which cannot be read.   *)
(***************************************************************************)
ImagePathSet == { <<"a", ".", "j", "p", "g">>, <<"b", ".", "j", "p", "g">> }

RECURSIVE PathLists(_)
PathLists(n) ==
    IF n = 0 THEN {<<>>}
    ELSE PathLists(n - 1)
           \cup { Append(l, p) : l \in { q \in PathLists(n - 1) : Len(q) = n - 1 },
                                 p \in ImagePathSet }

ClientCalls ==
    { ClientCall("Transcribe", systemPrompt, imagePaths) :
        systemPrompt \in {"", "You are a transcriber"},
        imagePaths \in {ImageList(TRUE, <<>>)}
                          \cup { ImageList(FALSE, l) : l \in PathLists(MaxImages) } }

InitRequest ==
    /\ pc = "client" /\ exitCode = -1
    /\ argv = <<>> /\ apiKey = "key" /\ stdinRest = <<>>
    /\ chunks = <<>> /\ startPage = Num(1) /\ endPage = Num(0)
    /\ totalPages = 0 /\ dirExists = FALSE /\ inputPdf = <<>>
    /\ extractPdf = <<>> /\ extractPath = "" /\ imageFiles = {}
    /\ spawns = <<>> /\ listed = {} /\ shuffled = FALSE /\ imgPaths = <<>>
    /\ idx = 0 /\ i = 0 /\ attemptLog = <<>> /\ markdown = ""
    /\ returned = <<>> /\ stdout = <<>> /\ stderr = <<>>
    /\ mainPromise = "pending" /\ rejection = ""
    /\ call \in ClientCalls /\ requests = <<>> /\ inFlight = <<>> /\ delays = 0

ClientCalled(unreadable) == pc = "client" /\ Set(OnClientCall(Cur, unreadable))

ClientHttpDone(resp) == pc = "http" /\ Set(OnClientHttpDone(Cur, resp))

NextRequest ==
    \/ \E unreadable \in SUBSET ImagePathSet : ClientCalled(unreadable)
    \/ \E resp \in HttpResults("# Title") : ClientHttpDone(resp)

SpecRequest == InitRequest /\ [][NextRequest]_vars

(***************************************************************************)
(* Properties.                                                             *)
(***************************************************************************)
\* The texts written to a stream, put together.
RECURSIVE Joined(_)
Joined(writes) == IF writes = <<>> THEN "" ELSE Head(writes) \o Joined(Tail(writes))

\* The run reached the print step: the Markdown was printed, the promise
\* main awaits resolved.
Printed == pc = "exited" /\ mainPromise = "fulfilled"

\* The paths of S in ascending lexicographic order.
RECURSIVE Ascending(_)
Ascending(S) ==
    IF S = {} THEN <<>>
    ELSE LET least == CHOOSE x \in S : \A y \in S \ {x} : LexLess(x, y)
         IN <<least>> \o Ascending(S \ {least})

\* The entries of `returned` for the image at path.
ReturnedFor(path) ==
    { k \in 1..Len(returned) : returned[k].path = NormalizePath(path) }

\* The transcription of the image at path followed by the separator.
FragmentOf(path) ==
    JsToString(returned[CHOOSE k \in ReturnedFor(path) : TRUE].value) \o "\n\n"

RECURSIVE Fragments(_)
Fragments(paths) ==
    IF paths = <<>> THEN ""
    ELSE FragmentOf(Head(paths)) \o Fragments(Tail(paths))

\* C1, at the print step: one fragment for each image path that
\* rasterization returned, and the Markdown is the fragments of the paths
\* taken in ascending lexicographic order, each followed by "\n\n".
C1_Final ==
    Printed =>
        /\ Len(returned) = Cardinality(listed)
        /\ \A path \in listed : Cardinality(ReturnedFor(path)) = 1
        /\ markdown = Fragments(Ascending(listed))

\* C1, during the loop: a step leaves the Markdown as it is or extends it by
\* the fragment of the image that returned and the separator.
C1_Extends ==
    \/ markdown' = markdown /\ returned' = returned
    \/ /\ Len(returned') = Len(returned) + 1
       /\ SubSeq(returned', 1, Len(returned)) = returned
       /\ markdown' = markdown \o JsToString(returned'[Len(returned')].value) \o "\n\n"

\* C1: the accumulated Markdown is append-only and, at the print step, is
\* the concatenation over the image paths in ascending lexicographic order
\* of each image's transcription followed by "\n\n", whatever the order of
\* the directory listing.
C1_MarkdownIsSortedFragments == [](C1_Final) /\ [][C1_Extends]_vars

\* C1's case: the print step is reached with several images that the
\* directory listing had returned out of order.
C1_Witness == Printed /\ shuffled /\ Len(returned) >= 2

\* Every client call made for the image failed.
AllFailed(log) ==
    Len(log) = retryTimes /\ \A j \in 1..Len(log) : log[j].kind # "ok"

\* C2, in every state: the page that failed every attempt contributed the
\* empty string and the separator, and a run with such a page that has
\* ended ended with code 0 after every image was transcribed.
C2_State ==
    /\ \A k \in 1..Len(returned) :
         AllFailed(returned[k].log) =>
            /\ returned[k].value = Str("")
            /\ returned[k].after = returned[k].before \o "\n\n"
    /\ (\E k \in 1..Len(returned) : AllFailed(returned[k].log)) =>
            /\ pc # "rejected" /\ rejection = ""
            /\ pc = "exited" => /\ exitCode = 0
                                /\ Printed
                                /\ Len(returned) = Len(imgPaths)

\* C2, the step after the last failed attempt: the wrapper returns (nothing
\* is thrown), the separator alone is appended, and the run goes on with the
\* next image or ends with code 0.
C2_Step ==
    (pc = "delay" /\ i = retryTimes - 1) =>
        /\ Len(returned') = Len(returned) + 1
        /\ AllFailed(returned'[Len(returned')].log)
        /\ markdown' = markdown \o "\n\n"
        /\ pc' \in {"http", "delay", "exited"}
        /\ pc' = "exited" => exitCode' = 0

\* C2: a page whose client call fails on every attempt contributes exactly
\* "" and the separator; no error leaves the retry wrapper, the remaining
\* pages are transcribed and the run exits with code 0.
C2_FailedPageIsEmptyFragment == [](C2_State) /\ [][C2_Step]_vars

\* C2's case: a run ended in which a page failed every attempt and a later
\* page was transcribed to a text.
C2_Witness ==
    /\ pc = "exited"
    /\ \E k \in 1..Len(returned), m \in 1..Len(returned) :
         /\ k < m
         /\ AllFailed(returned[k].log)
         /\ returned[m].value \notin {Str(""), Undefined}

\* The client calls of one image obey the retry rule: up to retryTimes
\* calls, each but the last a failure.
RetryRule(log) ==
    /\ Len(log) <= retryTimes
    /\ \A j \in 1..(Len(log) - 1) : log[j].kind # "ok"

\* C3: for each image the wrapper calls the client between once and
\* retryTimes times, makes a further call only after failures, makes none
\* after a success, and returns what the first successful call returned, or
\* "" when every call failed.
C3_RetryWrapper ==
    /\ \A k \in 1..Len(returned) :
         LET log == returned[k].log
             last == log[Len(log)]
         IN /\ Len(log) >= 1
            /\ RetryRule(log)
            /\ last.kind = "ok" => returned[k].value = last.value
            /\ last.kind # "ok" =>
                  Len(log) = retryTimes /\ returned[k].value = Str("")
            /\ returned[k].value = Str("") =>
                  AllFailed(log) \/ (last.kind = "ok" /\ last.value = Str(""))
    /\ pc \in {"http", "delay"} =>
         /\ RetryRule(attemptLog)
         /\ \A j \in 1..Len(attemptLog) : attemptLog[j].kind # "ok"
         /\ pc = "http" => Len(attemptLog) = i /\ i < retryTimes
         /\ pc = "delay" => Len(attemptLog) = i + 1

\* C3's case: an image whose third call succeeded with a text after two
\* failed calls.
C3_Witness ==
    \E k \in 1..Len(returned) :
        /\ Len(returned[k].log) = retryTimes
        /\ returned[k].log[retryTimes].kind = "ok"
        /\ returned[k].value = Str(PageText(1))

\* The decimal numeral of the integer n, as it is written on a command line.
Numeral(n) == IF n < 0 THEN <<"-">> \o ToDigits(0 - n) ELSE ToDigits(n)

\* The command line asks for pages a to b: two arguments, or the single
\* argument b with a = 1.
Requested(a, b) ==
    \/ argv = <<Numeral(a), Numeral(b)>>
    \/ a = 1 /\ argv = <<Numeral(b)>>

\* The page count is known and the range has been resolved against it.
Resolved == totalPages >= 1

\* The resolved range is the whole document.
WholeDocument == startPage = Num(1) /\ endPage = Num(totalPages)

\* C4: page-range resolution.  For every page count >= 1 and requested
\* integers (a, b): a valid range 1 <= a <= b <= totalPages is kept; a start
\* below 1 or above totalPages becomes 1; an end of 0 or above totalPages
\* becomes totalPages.
C4_RangeResolution ==
    Resolved =>
        \A a \in -20..10, b \in -20..10 :
            Requested(a, b) =>
                /\ (1 <= a /\ a <= b /\ b <= totalPages) =>
                        startPage = Num(a) /\ endPage = Num(b)
                /\ (a < 1 \/ a > totalPages) => startPage = Num(1)
                /\ (b = 0 \/ b > totalPages) => endPage = Num(totalPages)

\* C4's case: a three-page document, a start below 1 and an end above the
\* page count, both clamped.
C4_Witness ==
    /\ Resolved /\ totalPages = 3
    /\ Requested(-1, 10)
    /\ startPage = Num(1) /\ endPage = Num(3)

\* C5: after resolution both bounds of the range are pages of the document,
\* for every integer start and end given on the command line.
C5_RangeClamped ==
    Resolved =>
        \A a \in -20..10, b \in -20..10 :
            Requested(a, b) =>
                /\ ~startPage.isNaN /\ startPage.n \in 1..totalPages
                /\ ~endPage.isNaN /\ endPage.n \in 1..totalPages

\* The positions in `spawns` of the runs of tool.
SpawnsOf(tool) == { k \in 1..Len(spawns) : spawns[k].tool = tool }

\* C6: extraction runs if and only if the resolved range is not the whole
\* document.  When it is the whole document pdftk is never spawned and
\* pdftoppm is given the saved input PDF; otherwise pdftk is spawned exactly
\* once, with the resolved range, and pdftoppm is spawned only after it and
\* on the PDF it wrote.
C6_ExtractIffRangeDiffers ==
    /\ Cardinality(SpawnsOf("pdftk")) <= 1
    /\ Cardinality(SpawnsOf("pdftoppm")) <= 1
    /\ ~Resolved => SpawnsOf("pdftk") = {} /\ SpawnsOf("pdftoppm") = {}
    /\ (Resolved /\ WholeDocument) =>
            /\ SpawnsOf("pdftk") = {}
            /\ \A k \in SpawnsOf("pdftoppm") : spawns[k].pdf = InputPdfPath
    /\ (Resolved /\ ~WholeDocument) =>
            /\ \E k \in SpawnsOf("pdftk") :
                    /\ spawns[k].range = <<startPage, endPage>>
                    /\ spawns[k].pdf = InputPdfPath
                    /\ \A m \in SpawnsOf("pdftoppm") : k < m
            /\ \A m \in SpawnsOf("pdftoppm") :
                    /\ spawns[m].pdf # InputPdfPath
                    /\ spawns[m].pdf = extractPath
                    /\ spawns[m].pdf = ExtractPdfPath(startPage, endPage)
                    /\ pc = "pdftoppm" => extractPdf # <<>>

\* C6's case: pdftoppm runs on the PDF that pdftk extracted.
C6_Witness ==
    /\ pc = "pdftoppm"
    /\ SpawnsOf("pdftk") # {}
    /\ spawns[Len(spawns)].pdf = ExtractPdfPath(Num(2), Num(3))
    /\ extractPdf = <<2, 3>>

\* The line the catch handler of main().catch(...) would log for the reason
\* the run was rejected with.
MainCatchLine ==
    Timestamp \o " - ERROR - " \o "Error in main: " \o rejection \o "\n"

\* C7: a failed external-tool step aborts the run; the rejection is caught
\* by the top-level handler of main, which logs it and exits with code 1; no
\* later step runs, nothing is printed.
C7_ToolFailureCaughtByMain ==
    rejection # "" =>
        /\ pc \in {"rejected", "exited"}
        /\ mainPromise = "pending"
        /\ returned = <<>>
        /\ pc = "exited" =>
              /\ exitCode = 1
              /\ \E k \in 1..Len(stderr) : stderr[k] = MainCatchLine

\* C8: in every run that created the working directory, the directory no
\* longer exists when the process has exited.
C8_WorkingDirRemoved == (pc = "exited" /\ spawns # <<>>) => ~dirExists

\* C9: on a successful run standard output holds the accumulated Markdown
\* and nothing else; for a 3-page PDF, the arguments 2 and 3 and the
\* transcription "# Page N\n" of page N it is "# Page 2\n\n\n# Page 3\n\n\n".
C9_StdoutIsMarkdown ==
    /\ Printed => Joined(stdout) = markdown
    /\ ( /\ Printed
         /\ Concat(chunks) = Pdf(3)
         /\ argv = << <<"2">>, <<"3">> >>
         /\ Len(returned) = 2
         /\ returned[1].value = Str("# Page 2\n")
         /\ returned[2].value = Str("# Page 3\n") )
       => Joined(stdout) = "# Page 2\n\n\n# Page 3\n\n\n"

\* The transcriptions of the pages from to to, each followed by "\n\n".
RECURSIVE PagesText(_, _)
PagesText(from, to) ==
    IF from > to THEN ""
    ELSE PageText(from) \o "\n\n" \o PagesText(from + 1, to)

\* C10: the sorted image paths are in page order, and the fragments of the
\* final Markdown are in ascending page number, also when the number of
\* images has more digits than the number of the first page.
C10_SortedPathsInPageOrder ==
    /\ pc \in {"http", "delay"} =>
          /\ Len(imgPaths) = Len(PdfAt(Cur, extractPath))
          /\ \A k \in 1..Len(imgPaths) :
                PageOfImage(imgPaths[k]) = PdfAt(Cur, extractPath)[k]
    /\ Printed =>
          /\ Len(returned) = endPage.n - startPage.n + 1
          /\ markdown = PagesText(startPage.n, endPage.n)

\* C10's case: ten images, page-01.jpg to page-10.jpg, listed out of order,
\* transcribed and printed.
C10_Witness ==
    /\ Printed /\ shuffled
    /\ Len(returned) = 10
    /\ returned[9].value = Str(PageText(10))
    /\ returned[10].value = Str(PageText(11))

(***************************************************************************)
(* The early exits.                                                        *)
(***************************************************************************)
\* The run was given no argument; the run was given an empty standard
\* input (no byte is left to deliver and none was delivered).
NoArgsRun == Len(argv) = 0
EmptyInputRun == Len(argv) > 0 /\ stdinRest = <<>> /\ Concat(chunks) = <<>>

\* The error lines of a text on standard error.
ErrorLine(message) == Timestamp \o " - ERROR - " \o message \o "\n"

NoSideEffect ==
    /\ ~dirExists /\ inputPdf = <<>> /\ imageFiles = {}
    /\ spawns = <<>> /\ requests = <<>> /\ inFlight = <<>>

C11_State ==
    /\ NoArgsRun =>
          /\ pc \in {"start", "exited"}
          /\ chunks = <<>>
          /\ NoSideEffect
          /\ pc = "exited" => exitCode = 1 /\ stderr = <<ErrorLine(UsageArgs)>>
    /\ EmptyInputRun =>
          /\ pc \in {"start", "reading", "exited"}
          /\ NoSideEffect
          /\ pc = "exited" =>
                /\ exitCode = 1
                /\ stderr = <<ErrorLine("No input data received"),
                              ErrorLine(UsageInput)>>

\* A run without arguments exits from its first turn, before standard input
\* is listened to; a run with an empty input exits from the 'end' event.
C11_Step ==
    (pc' = "exited" /\ pc # "exited") =>
        /\ NoArgsRun => pc = "start" /\ stdinRest' = stdinRest
        /\ EmptyInputRun => pc = "reading"

\* C11: a run without command-line arguments exits with code 1 and the usage
\* message without reading or listening to standard input, and a run whose
\* standard input is empty exits with code 1 once the input has ended; in
\* both no working directory was made, no subprocess spawned and no request
\* sent.
C11_EarlyExits == [](C11_State) /\ [][C11_Step]_vars

C11_Witness ==
    /\ EmptyInputRun /\ pc = "exited" /\ exitCode = 1
    /\ stderr = <<ErrorLine("No input data received"), ErrorLine(UsageInput)>>

(***************************************************************************)
(* The API key.                                                            *)
(***************************************************************************)
KeyErrorLine == ErrorLine("Please set the OPENAI_API_KEY environment variables")

\* The run has arguments and a non-empty input, and no external tool failed.
OtherwiseValidRun == ~NoArgsRun /\ ~EmptyInputRun /\ rejection = ""

\* C12: in a run without API key no HTTP request is ever sent and no
\* transcription returns; when the arguments and the input are valid and the
\* tools succeed, the run ends with the error line of the missing key as the
\* last line of standard error and exit code 1; an exit code 0 without key
\* is that of a run whose tool failed.
C12_ApiKeyRequired ==
    apiKey = "" =>
        /\ requests = <<>> /\ returned = <<>> /\ pc \notin {"http", "delay"}
        /\ mainPromise = "pending"
        /\ (pc = "exited" /\ OtherwiseValidRun) =>
              /\ exitCode = 1
              /\ stderr # <<>> /\ stderr[Len(stderr)] = KeyErrorLine
        /\ exitCode = 0 => rejection # ""

C12_Witness ==
    /\ apiKey = "" /\ pc = "exited" /\ OtherwiseValidRun
    /\ imgPaths # <<>> /\ idx = 1
    /\ exitCode = 1 /\ stderr = <<KeyErrorLine>>

(***************************************************************************)
(* The parsing of the response.                                            *)
(***************************************************************************)
\* The client calls that returned, with the body they were answered with.
Answered ==
    { attemptLog[j] : j \in { n \in 1..Len(attemptLog) : attemptLog[n].kind = "ok" } }

\* The body has candidates[0].content.parts[0].text.
WholeStructure(d) ==
    /\ d.present /\ d.hasCandidates /\ Len(d.candidates) > 0
    /\ d.candidates[1].hasContent /\ d.candidates[1].hasParts
    /\ Len(d.candidates[1].parts) > 0
    /\ d.candidates[1].parts[1].hasText

\* C13: for every HTTP-successful response the client returns the text of
\* the first part of the first candidate when that structure is whole, and
\* the empty string when any part of it is absent.
C13_ResponseParsing ==
    pc = "returned" =>
      /\ Answered # {}
      /\ \A a \in Answered :
           a.value = IF WholeStructure(a.data)
                     THEN Str(a.data.candidates[1].parts[1].text)
                     ELSE Str("")

(***************************************************************************)
(* Sequential execution.                                                   *)
(***************************************************************************)
\* The tools spawned so far, in order.
ToolsSpawned == [k \in 1..Len(spawns) |-> spawns[k].tool]

IsPrefix(a, b) == Len(a) <= Len(b) /\ a = SubSeq(b, 1, Len(a))

\* C14: at most one subprocess or request is in flight, and it is the one
\* the run is suspended on; the tools are spawned in the order pdfinfo,
\* pdftk (if any), pdftoppm, each after the one before has ended; requests
\* are sent only after pdftoppm has ended; and a request for the image at
\* sorted position k is sent only when the transcriptions of the k - 1
\* images before it have returned.
C14_Sequential ==
    /\ Len(inFlight) <= 1
    /\ inFlight = IF pc \in {"pdfinfo", "pdftk", "pdftoppm", "http"}
                  THEN <<pc>> ELSE <<>>
    /\ \/ IsPrefix(ToolsSpawned, <<"pdfinfo", "pdftk", "pdftoppm">>)
       \/ IsPrefix(ToolsSpawned, <<"pdfinfo", "pdftoppm">>)
    /\ requests # <<>> =>
          /\ spawns # <<>> /\ spawns[Len(spawns)].tool = "pdftoppm"
          /\ pc # "pdftoppm"
    /\ \A j \in 1..Len(requests) :
          /\ requests[j].returned = requests[j].idx - 1
          /\ j > 1 => requests[j - 1].idx <= requests[j].idx
    /\ pc = "http" => requests[Len(requests)].idx = Len(returned) + 1

C14_Witness ==
    /\ pc = "http" /\ Len(spawns) = 3 /\ Len(requests) >= 2
    /\ requests[Len(requests)].idx = 2 /\ Len(returned) = 1
    /\ inFlight = <<"http">>

(***************************************************************************)
(* The retry delay.                                                        *)
(***************************************************************************)
\* C15: a delay is taken after a failed attempt only when another attempt
\* for the same page follows: the run never waits with the retryTimes
\* attempts used up, and a transcription that returned after n attempts
\* took n - 1 delays (retryTimes - 1 when all attempts failed).
C15_DelayOnlyBetweenRetries ==
    /\ pc = "delay" => Len(attemptLog) < retryTimes
    /\ \A k \in 1..Len(returned) :
          returned[k].delays = Len(returned[k].log) - 1

(***************************************************************************)
(* Images that cannot be read.                                             *)
(***************************************************************************)
\* The requests sent for the image at sorted position k.
RequestsFor(k) == Cardinality({ j \in 1..Len(requests) : requests[j].idx = k })

\* The client calls of a log that got as far as the request.
Posted(log) == Cardinality({ j \in 1..Len(log) : log[j].kind # "read error" })

AllReadErrors(log) ==
    log # <<>> /\ \A j \in 1..Len(log) : log[j].kind = "read error"

\* C16: a client call that fails to read its image sends no request (the
\* requests sent for an image are as many as its calls that did not end so),
\* is logged by the client and counted by the retry loop; a transcription
\* all of whose calls failed so took retryTimes calls, sent no request and
\* returned "", which the loop appended with the separator, and the run went
\* on to its end.
C16_UnreadableImage ==
    /\ \A k \in 1..Len(returned) :
          LET r == returned[k]
          IN /\ RequestsFor(k) = Posted(r.log)
             /\ AllReadErrors(r.log) =>
                   /\ Len(r.log) = retryTimes
                   /\ RequestsFor(k) = 0
                   /\ r.value = Str("")
                   /\ r.after = r.before \o "\n\n"
                   /\ pc # "rejected" /\ rejection = ""
                   /\ pc = "exited" => exitCode = 0 /\ mainPromise = "fulfilled"
    /\ pc \in {"http", "delay"} =>
          /\ RequestsFor(idx) = Posted(attemptLog) + (IF pc = "http" THEN 1 ELSE 0)
          /\ Len(stderr) >= 2 * (Len(attemptLog) - Posted(attemptLog))

C16_Witness ==
    /\ pc = "exited" /\ exitCode = 0
    /\ Len(returned) = 2
    /\ AllReadErrors(returned[1].log)
    /\ returned[2].value # Str("")
    /\ Len(requests) = 1

(***************************************************************************)
(* The request the client builds.                                          *)
(***************************************************************************)
\* C17: the messages of a request sent by the client are the system turn,
\* present exactly when the system prompt is not empty, and then one user
\* turn, the last; with a non-empty image list the user content is a list
\* of the text and then one base64 image/jpeg entry for each path, in the
\* order of the paths; with no list or an empty one it is the text entry
\* alone, not a list.
C17_RequestConstruction ==
    \A j \in 1..Len(requests) :
        LET msgs == requests[j].payload.messages
            user == msgs[Len(msgs)]
            paths == call.imagePaths.paths
        IN /\ Len(msgs) = IF call.systemPrompt # "" THEN 2 ELSE 1
           /\ call.systemPrompt # "" =>
                 msgs[1] = [role |-> "system", content |-> call.systemPrompt]
           /\ user.role = "user"
           /\ \A m \in 1..(Len(msgs) - 1) : msgs[m].role # "user"
           /\ (~call.imagePaths.isNull /\ paths # <<>>) =>
                 /\ user.content.isList
                 /\ Len(user.content.items) = 1 + Len(paths)
                 /\ user.content.items[1] = [text |-> call.userMessage]
                 /\ \A k \in 1..Len(paths) :
                       LET entry == user.content.items[k + 1]
                       IN /\ entry.type = "image"
                          /\ entry.source.type = "base64"
                          /\ entry.source.media_type = "image/jpeg"
                          /\ entry.source.data = Base64Image(paths[k])
           /\ (call.imagePaths.isNull \/ paths = <<>>) =>
                 /\ ~user.content.isList
                 /\ user.content.items = <<[text |-> call.userMessage]>>

C17_Witness ==
    /\ pc = "http" /\ Len(requests) = 1
    /\ call.systemPrompt # ""
    /\ Len(call.imagePaths.paths) = 2
    /\ call.imagePaths.paths[1] # call.imagePaths.paths[2]
    /\ Len(requests[1].payload.messages) = 2
    /\ Len(requests[1].payload.messages[2].content.items) = 3

====
